---- MODULE Spec2Model ----
(***************************************************************************)
(* Model of the nap advisory engine of naptime                              *)
(* (src/src/services/nap-calculator.js).                                    *)
(*                                                                         *)
(* The state is what NapCalculator.calculateNapStatus reads and returns:   *)
(* the sleep sessions handed over by the Oura provider, the wall clock in  *)
(* America/Denver (civil day and hour), and the object returned by the     *)
(* call.  Instants are modelled by their Mountain Time civil day and hour, *)
(* which is all the code derives from them.                                *)
(***************************************************************************)
EXTENDS Integers, Sequences, FiniteSets, TLC

VARIABLES sleepData, today, hour, midnightIs24, result, locals,
          minute, env, cache, requests, sent, fetched,
          session, authStep

vars == <<sleepData, today, hour, midnightIs24, result, locals,
          minute, env, cache, requests, sent, fetched,
          session, authStep>>

statusVars == <<minute, env, cache, requests, sent, fetched>>

authVars == <<session, authStep>>

serverVars == <<minute, env, cache, requests, sent, fetched, session, authStep>>

(***************************************************************************)
(* Bounds of the model.                                                    *)
(***************************************************************************)
MaxSessions == 2
MaxDay == 2
MaxInFlight == 2
MaxElapsedMinutes == 10
MaxBrowsers == 2
MaxOauthStates == 2

Days == 1..MaxDay
Hours == 0..23

(***************************************************************************)
(* Program constants.                                                      *)
(***************************************************************************)
SecondsPerHour == 3600
SleepEndHour == 7
NapStartHour == 14
NapEndHour == 17
SleepStartHour == 22
DaytimeNapStartHour == 11
DaytimeNapEndHour == 19
ShamblesBelowHours == 4
StrugglingBelowHours == 6
OkUpToHours == 9

(***************************************************************************)
(* Sleep sessions.  total_sleep_duration is in seconds; bedtime_start is   *)
(* the Mountain Time hour of the session's start instant, or NoStart when  *)
(* the record has no (valid) bedtime_start, for which the code's parseInt  *)
(* yields NaN.                                                             *)
(***************************************************************************)
NoStart == -1

\* A record without a day, a type or a total_sleep_duration property: the
\* property reads undefined, which equals no date and no type name.
NoDay == -1
NoType == "undefined"
NoDuration == -1

\* sleepRecord?.readiness?.score || null
NullScore == 0

Durations ==
  { 0,
    ShamblesBelowHours * SecondsPerHour - 1, ShamblesBelowHours * SecondsPerHour,
    StrugglingBelowHours * SecondsPerHour - 1, StrugglingBelowHours * SecondsPerHour,
    OkUpToHours * SecondsPerHour, OkUpToHours * SecondsPerHour + 1 }

NapDurations == { 1800 }

MainRecords ==
  [ day : Days, type : {"long_sleep"}, bedtime_start : {NoStart},
    total_sleep_duration : Durations ]

OtherRecords ==
  [ day : Days, type : {"late_nap", "sleep"}, bedtime_start : {9, 15},
    total_sleep_duration : NapDurations ]

Records == MainRecords \cup OtherRecords

SeqsUpTo(S, n) == UNION { [1..k -> S] : k \in 0..n }

\* sleepData as received: hasData = FALSE stands for null, undefined or an
\* object without a data field, for which sleepData?.data is undefined.
SleepDataInputs ==
  { [hasData |-> FALSE, data |-> <<>>] } \cup
  { [hasData |-> TRUE, data |-> s] : s \in SeqsUpTo(Records, MaxSessions) }

(***************************************************************************)
(* Array.prototype.find under optional chaining: the index of the first    *)
(* element among those that satisfy the predicate, 0 for undefined.        *)
(***************************************************************************)
FirstOf(hits) ==
  IF hits = {} THEN 0 ELSE CHOOSE i \in hits : \A j \in hits : i <= j

(***************************************************************************)
(* parseInt(date.toLocaleString("en-US", {hour: "2-digit", hour12: false}))*)
(* Depending on the ICU data of the runtime, en-US with hour12: false      *)
(* prints midnight as "24" or as "00".                                     *)
(***************************************************************************)
LocaleHour(h, is24) == IF h = 0 /\ is24 THEN 24 ELSE h

\* Mutant: the nap window opens one hour late.
getTimeWindow_lateNapStart(h) ==
  IF h >= SleepStartHour \/ h < SleepEndHour THEN "sleep"
  ELSE IF h >= SleepEndHour /\ h < NapStartHour THEN "pre-nap"
  ELSE IF h > NapStartHour /\ h < NapEndHour THEN "nap"
  ELSE "post-nap"

getTimeWindow(h) ==
  IF h >= SleepStartHour \/ h < SleepEndHour THEN "sleep"
  ELSE IF h >= SleepEndHour /\ h < NapStartHour THEN "pre-nap"
  ELSE IF h >= NapStartHour /\ h < NapEndHour THEN "nap"
  ELSE "post-nap"

\* Mutant: exactly nine hours counts as oversleep.
getSleepState_exclusiveNine(sleepSeconds) ==
  IF sleepSeconds = 0 THEN "no-data"
  ELSE IF sleepSeconds < ShamblesBelowHours * SecondsPerHour THEN "shambles"
  ELSE IF sleepSeconds < StrugglingBelowHours * SecondsPerHour THEN "struggling"
  ELSE IF sleepSeconds < OkUpToHours * SecondsPerHour THEN "ok"
  ELSE "oversleep"

\* sleepHours = sleepSeconds / 3600; the comparisons of the code against
\* whole hours are taken on the seconds.
getSleepState(sleepSeconds) ==
  IF sleepSeconds = 0 THEN "no-data"
  ELSE IF sleepSeconds < ShamblesBelowHours * SecondsPerHour THEN "shambles"
  ELSE IF sleepSeconds < StrugglingBelowHours * SecondsPerHour THEN "struggling"
  ELSE IF sleepSeconds <= OkUpToHours * SecondsPerHour THEN "ok"
  ELSE "oversleep"

getSleepCategory(sleepSeconds) ==
  LET state == getSleepState(sleepSeconds)
  IN  IF state = "shambles" THEN "severely-deprived"
      ELSE IF state = "ok" THEN "good"
      ELSE state

\* (seconds / 3600).toFixed(1), as a number of tenths of an hour.
ToFixed1(sleepSeconds) == (sleepSeconds * 10 + SecondsPerHour \div 2) \div SecondsPerHour

ISleep == [message |-> "I Sleep", recommendation |-> "Emily SHOULD be asleep right now."]

NoDataText ==
  "The Oura API is responding, but no sleep data has been fetched yet. Emily's ring might still be syncing, or idk something dumb might have happened lmao"

SleepMessages ==
  [ shambles |-> ISleep, struggling |-> ISleep, ok |-> ISleep,
    oversleep |-> ISleep, no_data |-> ISleep ]

PreNapMessages ==
  [ shambles |->
      [ message |-> "Not Nap Time",
        recommendation |-> "Emily is in shambles. She needs to survive until nap time at 2 PM." ],
    struggling |->
      [ message |-> "Not Nap Time",
        recommendation |-> "Emily has bad sleep habits, and she is ashamed of them. But now is not the time for a nap. She should try to get more sleep tonight." ],
    ok |->
      [ message |-> "Not Nap Time",
        recommendation |-> "Emily got decent sleep. No nap needed yet." ],
    oversleep |->
      [ message |-> "Not Nap Time",
        recommendation |-> "Emily might be getting sick - she slept over 9 hours." ],
    no_data |->
      [ message |-> "Not Nap Time", recommendation |-> NoDataText ] ]

NapMessages ==
  [ shambles |->
      [ message |-> "NAP TIME",
        recommendation |-> "Emily is severely sleep deprived. She should take a nap RIGHT NOW. GO TO BED" ],
    struggling |->
      [ message |-> "Maybe Nap Time",
        recommendation |-> "Emily is probably struggling a little. She is probably considering a nap. Maybe you should, too." ],
    ok |->
      [ message |-> "Not Nap Time",
        recommendation |-> "Emily doesn't NEED to nap. But it could be fun. You never know what might happen during a nap!" ],
    oversleep |->
      [ message |-> "NAP TIME",
        recommendation |-> "Emily slept more than 9 hours, which might indicate she's getting sick, because that is way too much sleep, yall are crazy" ],
    no_data |->
      [ message |-> "Unknown", recommendation |-> NoDataText ] ]

PostNapMessages ==
  [ shambles |-> [ message |-> "Not Nap Time", recommendation |-> "GO TO BED GIRL" ],
    struggling |->
      [ message |-> "Not Nap Time",
        recommendation |-> "Emily really should have slept more last night. She is a bad, bad girl. But it's too late to nap. She must live with the consequences of her choices until it is time for bed." ],
    ok |->
      [ message |-> "Not Nap Time",
        recommendation |-> "Emily is OK. But it is not nap time." ],
    oversleep |->
      [ message |-> "Not Nap Time",
        recommendation |-> "Emily might be getting sick - she slept over 9 hours. Who does that???" ],
    no_data |->
      [ message |-> "Not Nap Time", recommendation |-> NoDataText ] ]

NappedMessage ==
  [ message |-> "Not Nap Time",
    recommendation |-> "Emily has napped already. Another nap would be silly." ]

\* Mutant: the post-nap table has no oversleep entry.
MESSAGE_CONFIG_noPostNapOversleep ==
  [ sleep |-> SleepMessages,
    pre_nap |-> PreNapMessages,
    nap |-> NapMessages,
    post_nap |-> [ k \in DOMAIN PostNapMessages \ {"oversleep"} |-> PostNapMessages[k] ],
    napped |-> NappedMessage ]

MESSAGE_CONFIG ==
  [ sleep |-> SleepMessages,
    pre_nap |-> PreNapMessages,
    nap |-> NapMessages,
    post_nap |-> PostNapMessages,
    napped |-> NappedMessage ]

\* Property names of MESSAGE_CONFIG that are not TLA+ identifiers.
Key(name) ==
  CASE name = "pre-nap" -> "pre_nap"
    [] name = "post-nap" -> "post_nap"
    [] name = "no-data" -> "no_data"
    [] OTHER -> name

Undefined == [undefined |-> TRUE]

\* MESSAGE_CONFIG[timeWindow][sleepState]: undefined when the inner object
\* has no such property.
Lookup(timeWindow, sleepState) ==
  LET inner == MESSAGE_CONFIG[Key(timeWindow)]
  IN  IF Key(sleepState) \in DOMAIN inner THEN inner[Key(sleepState)] ELSE Undefined

(***************************************************************************)
(* Steps of calculateNapStatus.                                            *)
(***************************************************************************)

\* The data array the finds run over; sleepData?.data?.find(...) is
\* undefined (index 0 here) when there is no array.
DataOf(sd) == IF sd.hasData THEN sd.data ELSE <<>>

\* Mutant: the seven o'clock hour still counts as daytime.
isDaytimeNap_inclusiveEnd(startHour) ==
  /\ startHour # NoStart
  /\ startHour >= DaytimeNapStartHour
  /\ startHour <= DaytimeNapEndHour

\* Mutant: every start before 19:00 counts as daytime.
isDaytimeNap_noLowerBound(startHour) ==
  /\ startHour # NoStart
  /\ startHour < DaytimeNapEndHour

\* startHour >= 11 && startHour < 19, false for NaN.
isDaytimeNap(startHour) ==
  /\ startHour # NoStart
  /\ startHour >= DaytimeNapStartHour
  /\ startHour < DaytimeNapEndHour

\* The predicate of the todayNap find.
IsTodayNap(record, td, is24) ==
  IF record.day # td THEN FALSE
  ELSE LET startHour == IF record.bedtime_start = NoStart THEN NoStart
                        ELSE LocaleHour(record.bedtime_start, is24)
       IN  \/ record.type = "late_nap"
           \/ (isDaytimeNap(startHour) /\ record.type # "long_sleep")

todayNap(sd, td, is24) ==
  LET data == DataOf(sd)
  IN  FirstOf({ i \in 1..Len(data) : IsTodayNap(data[i], td, is24) })

\* Mutant: the first long_sleep is taken whatever its day.
sleepRecord_noTodayPreference(sd, td) ==
  LET data == DataOf(sd)
      AnyLong(record) == record.type = "long_sleep"
      NotNap(record) == record.type # "late_nap"
      second == FirstOf({ i \in 1..Len(data) : AnyLong(data[i]) })
      notNap == FirstOf({ i \in 1..Len(data) : NotNap(data[i]) })
  IN  IF second # 0 THEN second
      ELSE IF notNap # 0 THEN notNap
      ELSE IF Len(data) > 0 THEN 1
      ELSE 0

\* Index in data of the record taken as last night's sleep, 0 when none.
sleepRecord(sd, td) ==
  LET data == DataOf(sd)
      TodayLong(record) == record.day = td /\ record.type = "long_sleep"
      AnyLong(record) == record.type = "long_sleep"
      NotNap(record) == record.type # "late_nap"
      first == FirstOf({ i \in 1..Len(data) : TodayLong(data[i]) })
      second == IF first # 0 THEN first
                ELSE FirstOf({ i \in 1..Len(data) : AnyLong(data[i]) })
      notNap == FirstOf({ i \in 1..Len(data) : NotNap(data[i]) })
  IN  IF second # 0 THEN second
      ELSE IF notNap # 0 THEN notNap
      ELSE IF Len(data) > 0 THEN 1
      ELSE 0

\* Mutant: a missing total_sleep_duration is not defaulted to 0.
sleepSecondsOf_noDefault(sd, td) ==
  LET i == sleepRecord(sd, td)
  IN  IF i = 0 THEN 0 ELSE DataOf(sd)[i].total_sleep_duration

\* sleepRecord?.total_sleep_duration || 0
sleepSecondsOf(sd, td) ==
  LET i == sleepRecord(sd, td)
  IN  IF i = 0 THEN 0
      ELSE IF DataOf(sd)[i].total_sleep_duration = NoDuration THEN 0
      ELSE DataOf(sd)[i].total_sleep_duration

\* sleepRecord?.readiness?.score || null, a zero or missing score being null.
sleepScoreOf(sd, td) ==
  LET i == sleepRecord(sd, td)
  IN  IF i = 0 THEN NullScore
      ELSE IF "readiness_score" \in DOMAIN DataOf(sd)[i]
      THEN DataOf(sd)[i].readiness_score
      ELSE NullScore

getSleepQuality(score) ==
  IF score = NullScore THEN "Unknown"
  ELSE IF score >= 85 THEN "Excellent"
  ELSE IF score >= 70 THEN "Good"
  ELSE IF score >= 55 THEN "Fair"
  ELSE "Poor"

\* Mutant: the napped message is chosen before the sleep window is looked at.
messageConfig_nappedFirst(timeWindow, sleepState, hasNappedToday) ==
  IF hasNappedToday THEN MESSAGE_CONFIG.napped
  ELSE Lookup(timeWindow, sleepState)

\* Mutant: the napped message is never chosen.
messageConfig_noNapped(timeWindow, sleepState, hasNappedToday) ==
  Lookup(timeWindow, sleepState)

\* The message configuration chosen on the path with data.
messageConfig(timeWindow, sleepState, hasNappedToday) ==
  IF timeWindow = "sleep" THEN Lookup(timeWindow, sleepState)
  ELSE IF hasNappedToday THEN MESSAGE_CONFIG.napped
  ELSE Lookup(timeWindow, sleepState)

\* Mutant: a nap of today does not suppress the need.
napNeed_ignoreNapped(sleepState, isNapTime, hasNappedToday) ==
  IF sleepState = "shambles" \/ sleepState = "oversleep"
  THEN [needsNap |-> TRUE, napPriority |-> "yes"]
  ELSE IF sleepState = "struggling" /\ isNapTime
  THEN [needsNap |-> TRUE, napPriority |-> "maybe"]
  ELSE [needsNap |-> FALSE, napPriority |-> "none"]

\* Mutant: shambles and oversleep need a nap only in the nap window.
napNeed_severeOnlyNapTime(sleepState, isNapTime, hasNappedToday) ==
  IF ~hasNappedToday
  THEN IF (sleepState = "shambles" \/ sleepState = "oversleep") /\ isNapTime
       THEN [needsNap |-> TRUE, napPriority |-> "yes"]
       ELSE IF sleepState = "struggling" /\ isNapTime
       THEN [needsNap |-> TRUE, napPriority |-> "maybe"]
       ELSE [needsNap |-> FALSE, napPriority |-> "none"]
  ELSE [needsNap |-> FALSE, napPriority |-> "none"]

\* Mutant: struggling needs a nap in every window.
napNeed_strugglingAnyTime(sleepState, isNapTime, hasNappedToday) ==
  IF ~hasNappedToday
  THEN IF sleepState = "shambles" \/ sleepState = "oversleep"
       THEN [needsNap |-> TRUE, napPriority |-> "yes"]
       ELSE IF sleepState = "struggling"
       THEN [needsNap |-> TRUE, napPriority |-> "maybe"]
       ELSE [needsNap |-> FALSE, napPriority |-> "none"]
  ELSE [needsNap |-> FALSE, napPriority |-> "none"]

\* Mutant: every night short of oversleep but not in shambles may nap in the
\* nap window.
napNeed_okNapTime(sleepState, isNapTime, hasNappedToday) ==
  IF ~hasNappedToday
  THEN IF sleepState = "shambles" \/ sleepState = "oversleep"
       THEN [needsNap |-> TRUE, napPriority |-> "yes"]
       ELSE IF isNapTime
       THEN [needsNap |-> TRUE, napPriority |-> "maybe"]
       ELSE [needsNap |-> FALSE, napPriority |-> "none"]
  ELSE [needsNap |-> FALSE, napPriority |-> "none"]

\* needsNap and napPriority on the path with data.
\* Mutant: the rule of the README, under six hours and in the nap window.
napNeed_documentedRule(sleepState, isNapTime, hasNappedToday) ==
  IF (sleepState = "shambles" \/ sleepState = "struggling") /\ isNapTime
  THEN [needsNap |-> TRUE, napPriority |-> "yes"]
  ELSE [needsNap |-> FALSE, napPriority |-> "none"]

\* Mutant: the struggling case sets needsNap and leaves the priority at none.
napNeed_maybeWithoutPriority(sleepState, isNapTime, hasNappedToday) ==
  IF ~hasNappedToday
  THEN IF sleepState = "shambles" \/ sleepState = "oversleep"
       THEN [needsNap |-> TRUE, napPriority |-> "yes"]
       ELSE IF sleepState = "struggling" /\ isNapTime
       THEN [needsNap |-> TRUE, napPriority |-> "none"]
       ELSE [needsNap |-> FALSE, napPriority |-> "none"]
  ELSE [needsNap |-> FALSE, napPriority |-> "none"]

napNeed(sleepState, isNapTime, hasNappedToday) ==
  IF ~hasNappedToday
  THEN IF sleepState = "shambles" \/ sleepState = "oversleep"
       THEN [needsNap |-> TRUE, napPriority |-> "yes"]
       ELSE IF sleepState = "struggling" /\ isNapTime
       THEN [needsNap |-> TRUE, napPriority |-> "maybe"]
       ELSE [needsNap |-> FALSE, napPriority |-> "none"]
  ELSE [needsNap |-> FALSE, napPriority |-> "none"]

None == [kind |-> "none"]
TypeError == [kind |-> "throw"]

\* The local variables of a call that the returned object does not carry.
localsOf(sd, td, h, is24) ==
  LET sleepSeconds == sleepSecondsOf(sd, td)
      hasNoData == sleepSeconds = 0 \/ sleepRecord(sd, td) = 0
      hr == IF hasNoData THEN LocaleHour(h, is24) ELSE h
  IN  [ hour |-> hr,
        timeWindow |-> getTimeWindow(hr),
        sleepState |-> IF hasNoData THEN "no-data" ELSE getSleepState(sleepSeconds),
        hasNoData |-> hasNoData,
        sleepRecord |-> sleepRecord(sd, td),
        todayNap |-> todayNap(sd, td, is24) ]

calculateNapStatus(sd, td, h, is24) ==
  LET sleepSeconds == sleepSecondsOf(sd, td)
      hasNoData == sleepSeconds = 0 \/ sleepRecord(sd, td) = 0
  IN  IF hasNoData
      THEN LET timeWindow == getTimeWindow(LocaleHour(h, is24))
               noDataConfig == Lookup(timeWindow, "no-data")
           IN  IF noDataConfig = Undefined THEN TypeError
               ELSE [ kind |-> "return",
                      needsNap |-> FALSE,
                      sleepHours |-> 0,
                      sleepScore |-> NullScore,
                      sleepCategory |-> "no-data",
                      napPriority |-> "unknown",
                      quality |-> "Unknown",
                      isNapTime |-> timeWindow = "nap",
                      isSleepTime |-> timeWindow = "sleep",
                      message |-> noDataConfig.message,
                      shouldNap |-> FALSE,
                      recommendation |-> noDataConfig.recommendation,
                      hasNappedToday |-> FALSE,
                      totalSleepDurationSeconds |-> 0 ]
      ELSE LET timeWindow == getTimeWindow(h)
               isNapTime == timeWindow = "nap"
               isSleepTime == timeWindow = "sleep"
               sleepState == getSleepState(sleepSeconds)
               sleepCategory == getSleepCategory(sleepSeconds)
               hasNappedToday == todayNap(sd, td, is24) # 0
               config == messageConfig(timeWindow, sleepState, hasNappedToday)
               need == napNeed(sleepState, isNapTime, hasNappedToday)
           IN  IF config = Undefined THEN TypeError
               ELSE [ kind |-> "return",
                      needsNap |-> need.needsNap,
                      sleepHours |-> ToFixed1(sleepSeconds),
                      sleepScore |-> sleepScoreOf(sd, td),
                      sleepCategory |-> sleepCategory,
                      napPriority |-> need.napPriority,
                      quality |-> getSleepQuality(sleepScoreOf(sd, td)),
                      isNapTime |-> isNapTime,
                      isSleepTime |-> isSleepTime,
                      message |-> config.message,
                      shouldNap |-> need.needsNap,
                      recommendation |-> config.recommendation,
                      hasNappedToday |-> hasNappedToday,
                      totalSleepDurationSeconds |-> sleepSeconds ]

\* The recommendations of getDetailedRecommendations for the status computed
\* at local hour h.
getDetailedRecommendations(status, h) ==
  IF status.needsNap
    THEN << "Take a 20-30 minute nap now",
            "Find a quiet, dark place to rest",
            "Set an alarm to avoid oversleeping" >>
  ELSE IF status.sleepCategory = "severely-deprived" /\ ~status.needsNap
    THEN << "Take a nap immediately - severe sleep deprivation" >>
  ELSE IF status.sleepCategory = "oversleep"
    THEN << "Take a nap - you might be getting sick",
            "Monitor how you feel and consider seeing a doctor if oversleeping continues" >>
  ELSE IF status.sleepCategory = "struggling" /\ ~status.isNapTime
    THEN << IF 14 - h > 0 /\ 14 - h < 12
              THEN "Wait ${hoursUntilNapTime} hours until nap time (2 PM)"
              ELSE "Nap time is 2:00-5:00 PM Mountain Time",
            "Consider going to bed earlier tonight" >>
  ELSE IF status.sleepCategory = "good"
    THEN << "You got good sleep last night",
            "Stay active and maintain your energy" >>
  ELSE << >>

(***************************************************************************)
(* The result cache (CacheService over NodeCache) with its single key       *)
(* 'emily_nap_status'.  An entry holds the value v and the instant t, in    *)
(* seconds, at which it expires.  The cache checks for expired entries      *)
(* every 60 s.                                                             *)
(***************************************************************************)
NapStatusTTL == 300

EmptyCache == [present |-> FALSE]

\* Mutant: an entry is returned however old it is.
cacheGet_ignoreExpiry(c, now) ==
  IF c.present THEN c.v ELSE Undefined

\* cache.get(key): the value while the entry has not expired, else undefined.
cacheGet(c, now) ==
  IF c.present /\ now < c.t THEN c.v ELSE Undefined

\* Mutant: a read restarts the lifetime of a live entry.
cacheAfterGet_touch(c, now) ==
  IF c.present /\ now >= c.t THEN EmptyCache
  ELSE IF c.present THEN [c EXCEPT !.t = now + 300]
  ELSE c

\* The entry left behind by cache.get(key): an expired entry is deleted.
cacheAfterGet(c, now) ==
  IF c.present /\ now >= c.t THEN EmptyCache ELSE c

\* Mutant: the entry lives twice the requested time.
cacheSet_doubleTtl(value, ttl, now) ==
  [present |-> TRUE, v |-> value, t |-> now + 2 * ttl]

\* cache.set(key, value, ttl).
cacheSet(value, ttl, now) ==
  [present |-> TRUE, v |-> value, t |-> now + ttl]

\* cache.flush().
flush(c) == EmptyCache

(***************************************************************************)
(* GET /api/nap-status.                                                    *)
(***************************************************************************)
Slots == 1..MaxInFlight

\* The instant, in seconds, of minute m of hour h of day td.
Instant(td, h, m) == ((td * 24 + h) * 60 + m) * 60

Idle == [at |-> "idle"]
Fetching == [at |-> "fetching"]
Settled(outcome) == [at |-> "settled", outcome |-> outcome]

NoStatus == 0

\* What the provider can answer to the sleep request.
UpstreamOutcomes ==
  { [kind |-> "data"], [kind |-> "no_response"], [kind |-> "setup"] }
  \cup [ kind : {"response"}, status : {401, 429, 500, 511} ]

StatusWord(status) ==
  CASE status = 401 -> "401"
    [] status = 429 -> "429"
    [] status = 500 -> "500"
    [] status = 511 -> "511"

\* The reason phrase of the provider's answer, word by word.
StatusText(status) ==
  CASE status = 401 -> <<"Unauthorized">>
    [] status = 429 -> <<"Too", "Many", "Requests">>
    [] status = 500 -> <<"Internal", "Server", "Error">>
    [] status = 511 -> <<"Network", "Authentication", "Required">>

\* The error thrown by OuraService.getYesterdaySleep, its message word by word.
getYesterdaySleepError(outcome) ==
  IF outcome.kind = "response"
    THEN [ status |-> outcome.status,
           message |-> <<"Oura", "API", "Error:", StatusWord(outcome.status)>>
                         \o StatusText(outcome.status) ]
  ELSE IF outcome.kind = "no_response"
    THEN [ status |-> NoStatus,
           message |-> <<"Network", "error:", "No", "response", "from", "Oura", "API">> ]
  ELSE [ status |-> NoStatus, message |-> <<"Invalid", "URL">> ]

\* error.message.includes(word)
Includes(message, word) == \E i \in 1..Len(message) : message[i] = word

ConfigurationError == [status |-> 500, error |-> "Configuration error"]
AuthenticationFailed == [status |-> 401, error |-> "Authentication failed"]
RateLimitExceeded == [status |-> 429, error |-> "Rate limit exceeded", retryAfter |-> 60]
ServiceUnavailable == [status |-> 503, error |-> "Service unavailable"]
FailedToFetch == [status |-> 500, error |-> "Failed to fetch nap status"]

\* The responses written by the catch block of the handler.
catchBlock(error) ==
  IF error.status = 401 THEN <<AuthenticationFailed>>
  ELSE IF error.status = 429 THEN <<RateLimitExceeded>>
  ELSE IF Includes(error.message, "Network") THEN <<ServiceUnavailable>>
  ELSE <<FailedToFetch>>

\* Mutant: a cached advisory is sent as it is.
hitResponse_noFlag(cachedStatus) ==
  [status |-> 200, body |-> cachedStatus]

\* res.json({...cachedStatus, cached: true, cacheTime: cachedStatus.lastUpdated})
hitResponse(cachedStatus) ==
  [ status |-> 200, body |-> cachedStatus, cached |-> TRUE,
    cacheTime |-> cachedStatus.lastUpdated ]

\* res.json(status)
missResponse(status) == [status |-> 200, body |-> status]

\* The advisory of calculateNapStatus with its lastUpdated stamp.
statusAt(sd, td, h, m, is24) ==
  calculateNapStatus(sd, td, h, is24) @@ [lastUpdated |-> Instant(td, h, m)]

NoneSent == [slot |-> -1, responses |-> <<>>]

\* No sleep request has been sent to the provider yet.
NoFetch == -1

(***************************************************************************)
(* The OAuth routes /auth/login and /auth/callback.                        *)
(***************************************************************************)
Browsers == 1..MaxBrowsers

\* The values Math.random().toString(36).substring(7) can take.
StateValues == 1..MaxOauthStates

\* undefined: a query parameter that is not given, a session field not set.
NoParam == 0

FreshSession == [oauthState |-> NoParam, accessToken |-> FALSE, userId |-> FALSE]

\* req.query of a callback.
Queries ==
  [ code : {NoParam, 1}, state : {NoParam} \cup StateValues, error : {NoParam, 1} ]

Quiet == [at |-> "idle"]

\* Where /auth/callback goes before its await: one of the three error
\* redirects, or the token exchange.
callbackRedirect(query, sess) ==
  IF query.error # NoParam THEN "oauth_denied"
  ELSE IF query.state # sess.oauthState THEN "invalid_state"
  ELSE IF query.code = NoParam THEN "no_code"
  ELSE "exchange"

IdleServer ==
  /\ minute = 0
  /\ env = [OURA_API_TOKEN |-> TRUE, NODE_ENV |-> "production"]
  /\ cache = EmptyCache
  /\ requests = [s \in Slots |-> Idle]
  /\ sent = NoneSent
  /\ fetched = NoFetch
  /\ session = [b \in Browsers |-> FreshSession]
  /\ authStep = Quiet

(***************************************************************************)
(* The state machine.  result is the object returned by the call that has  *)
(* just completed (None when no call has completed since the inputs last   *)
(* changed), locals the local variables of that call.                      *)
(***************************************************************************)
Init ==
  /\ sleepData \in SleepDataInputs
  /\ today \in Days
  /\ hour \in Hours
  /\ midnightIs24 \in BOOLEAN
  /\ result = None
  /\ locals = None
  /\ IdleServer

\* A call of NapCalculator.calculateNapStatus(sleepData) at the current instant.
CalculateNapStatus ==
  /\ result' = calculateNapStatus(sleepData, today, hour, midnightIs24)
  /\ locals' = localsOf(sleepData, today, hour, midnightIs24)
  /\ UNCHANGED <<sleepData, today, hour, midnightIs24>>
  /\ UNCHANGED serverVars

\* The wall clock passes into the next hour.
Tick ==
  /\ hour = 23 => today < MaxDay
  /\ hour' = (hour + 1) % 24
  /\ today' = IF hour = 23 THEN today + 1 ELSE today
  /\ result' = None
  /\ locals' = None
  /\ UNCHANGED <<sleepData, midnightIs24>>
  /\ UNCHANGED serverVars

\* The provider reports one more session.
ReportSession ==
  /\ Len(DataOf(sleepData)) < MaxSessions
  /\ \E record \in Records :
       sleepData' = [hasData |-> TRUE, data |-> Append(DataOf(sleepData), record)]
  /\ result' = None
  /\ locals' = None
  /\ UNCHANGED <<today, hour, midnightIs24>>
  /\ UNCHANGED serverVars

Next == CalculateNapStatus \/ Tick \/ ReportSession

Spec == Init /\ [][Next]_vars

(***************************************************************************)
(* Record selection and nap detection, on session lists that vary the day  *)
(* (day 0 lies before the first day), the type and the start hour around   *)
(* the 11:00 and 19:00 limits, at a fixed instant of the day.              *)
(***************************************************************************)
SelectHours == {15, 20}

SelectRecords ==
  [ day : 0..MaxDay, type : {"long_sleep", "late_nap", "sleep"},
    bedtime_start : {10, 11, 18, 19}, total_sleep_duration : {18000} ]

InitSelect ==
  /\ sleepData \in { [hasData |-> TRUE, data |-> s] :
                        s \in SeqsUpTo(SelectRecords, MaxSessions) }
  /\ today \in Days
  /\ hour \in SelectHours
  /\ midnightIs24 \in BOOLEAN
  /\ result = None
  /\ locals = None
  /\ IdleServer

NextSelect == CalculateNapStatus \/ ReportSession

SpecSelect == InitSelect /\ [][NextSelect]_vars

(***************************************************************************)
(* Absent and malformed input: no object, no data array, an empty array,   *)
(* records without day, type, bedtime_start or total_sleep_duration, and   *)
(* records of zero duration.                                               *)
(***************************************************************************)
MalformedHours == {0, 10, 15, 19}

MalformedRecords ==
  [ day : {NoDay} \cup Days, type : {NoType, "long_sleep"},
    bedtime_start : {NoStart}, total_sleep_duration : {NoDuration, 0, 18000} ]
  \cup
  [ day : Days, type : {"long_sleep"}, bedtime_start : {NoStart},
    total_sleep_duration : {NoDuration, 0}, readiness_score : {80} ]

InitMalformed ==
  /\ sleepData \in
       { [hasData |-> FALSE, data |-> <<>>] } \cup
       { [hasData |-> TRUE, data |-> s] :
           s \in SeqsUpTo(MalformedRecords, MaxSessions) }
  /\ today \in Days
  /\ hour \in MalformedHours
  /\ midnightIs24 \in BOOLEAN
  /\ result = None
  /\ locals = None
  /\ IdleServer

SpecMalformed == InitMalformed /\ [][NextSelect]_vars

(***************************************************************************)
(* The nap-status route served over a few minutes around a window limit.   *)
(* A request runs to its first await in one step and resumes in one step    *)
(* once the provider's promise has settled; a settled promise resumes       *)
(* before any other event is handled.                                       *)
(***************************************************************************)
HttpStartHours == {6, 13, 16, 21}
HttpStartMinute == 57

HttpSleepData ==
  { [hasData |-> TRUE, data |-> <<>>],
    [hasData |-> TRUE,
     data |-> <<[day |-> 1, type |-> "long_sleep", bedtime_start |-> NoStart,
                 total_sleep_duration |-> 18000]>>],
    [hasData |-> TRUE,
     data |-> <<[day |-> 1, type |-> "long_sleep", bedtime_start |-> NoStart,
                 total_sleep_duration |-> 28800]>>] }

Now == Instant(today, hour, minute)

InitHttp ==
  /\ sleepData \in HttpSleepData
  /\ today = 1
  /\ hour \in HttpStartHours
  /\ minute = HttpStartMinute
  /\ midnightIs24 = FALSE
  /\ result = None
  /\ locals = None
  /\ env \in [OURA_API_TOKEN : BOOLEAN, NODE_ENV : {"development", "production"}]
  /\ cache = EmptyCache
  /\ requests = [s \in Slots |-> Idle]
  /\ sent = NoneSent
  /\ fetched = NoFetch
  /\ session = [b \in Browsers |-> FreshSession]
  /\ authStep = Quiet

calcVars == <<sleepData, today, hour, midnightIs24, result, locals>>

NoneSettled == \A s \in Slots : requests[s].at # "settled"

\* GET /api/nap-status up to the answer or to the await of the provider.
StartRequest(s) ==
  /\ NoneSettled
  /\ requests[s] = Idle
  /\ IF ~env.OURA_API_TOKEN
       THEN /\ sent' = [slot |-> s, responses |-> <<ConfigurationError>>]
            /\ UNCHANGED <<cache, requests, fetched>>
       ELSE LET cachedStatus == cacheGet(cache, Now)
            IN  /\ cache' = cacheAfterGet(cache, Now)
                /\ IF cachedStatus # Undefined
                     THEN /\ sent' = [slot |-> s,
                                      responses |-> <<hitResponse(cachedStatus)>>]
                          /\ UNCHANGED <<requests, fetched>>
                     ELSE /\ sent' = [slot |-> s, responses |-> <<>>]
                          /\ requests' = [requests EXCEPT ![s] = Fetching]
                          /\ fetched' = Now
  /\ UNCHANGED <<minute, env>>
  /\ UNCHANGED calcVars
  /\ UNCHANGED authVars

\* The provider's promise settles with data or with a failure.
UpstreamSettles(s) ==
  /\ NoneSettled
  /\ requests[s] = Fetching
  /\ \E outcome \in UpstreamOutcomes :
       requests' = [requests EXCEPT ![s] = Settled(outcome)]
  /\ sent' = NoneSent
  /\ UNCHANGED <<minute, env, cache, fetched>>
  /\ UNCHANGED calcVars
  /\ UNCHANGED authVars

\* Mutant: the answer of the catch block is stored like an advisory.
Resume_cachesFailure(s) ==
  /\ requests[s].at = "settled"
  /\ IF requests[s].outcome.kind = "data"
       THEN LET status == statusAt(sleepData, today, hour, minute, midnightIs24)
            IN  /\ cache' = cacheSet(status, NapStatusTTL, Now)
                /\ sent' = [slot |-> s, responses |-> <<missResponse(status)>>]
       ELSE LET answer == catchBlock(getYesterdaySleepError(requests[s].outcome))
            IN  /\ sent' = [slot |-> s, responses |-> answer]
                /\ cache' = cacheSet(answer[1] @@ [kind |-> "error", lastUpdated |-> Now],
                                   NapStatusTTL, Now)
  /\ requests' = [requests EXCEPT ![s] = Idle]
  /\ UNCHANGED <<minute, env, fetched>>
  /\ UNCHANGED calcVars
  /\ UNCHANGED authVars

\* The handler resumes after the await: compute, store and answer, or the
\* catch block.
Resume(s) ==
  /\ requests[s].at = "settled"
  /\ IF requests[s].outcome.kind = "data"
       THEN LET status == statusAt(sleepData, today, hour, minute, midnightIs24)
            IN  /\ cache' = cacheSet(status, NapStatusTTL, Now)
                /\ sent' = [slot |-> s, responses |-> <<missResponse(status)>>]
       ELSE /\ sent' = [slot |-> s,
                        responses |-> catchBlock(getYesterdaySleepError(requests[s].outcome))]
            /\ UNCHANGED cache
  /\ requests' = [requests EXCEPT ![s] = Idle]
  /\ UNCHANGED <<minute, env, fetched>>
  /\ UNCHANGED calcVars
  /\ UNCHANGED authVars

\* A minute passes.  The cache's periodic check has run by then, so no entry
\* is left that had expired a minute earlier.
Elapse ==
  /\ NoneSettled
  /\ cache.present => Now < cache.t
  /\ (minute - HttpStartMinute) % 60 < MaxElapsedMinutes
  /\ minute = 59 /\ hour = 23 => today < MaxDay
  /\ minute' = (minute + 1) % 60
  /\ hour' = IF minute = 59 THEN (hour + 1) % 24 ELSE hour
  /\ today' = IF minute = 59 /\ hour = 23 THEN today + 1 ELSE today
  /\ sent' = NoneSent
  /\ UNCHANGED <<env, cache, requests, fetched>>
  /\ UNCHANGED <<sleepData, midnightIs24, result, locals>>
  /\ UNCHANGED authVars

\* The cache's periodic check deletes an expired entry.
CheckData ==
  /\ NoneSettled
  /\ cache.present
  /\ Now >= cache.t
  /\ cache' = EmptyCache
  /\ sent' = NoneSent
  /\ UNCHANGED <<minute, env, requests, fetched>>
  /\ UNCHANGED calcVars
  /\ UNCHANGED authVars

\* POST /api/cache/clear
ClearCache ==
  /\ NoneSettled
  /\ IF env.NODE_ENV # "development"
       THEN /\ sent' = [slot |-> 0,
                        responses |-> <<[status |-> 403, error |-> "Not available in production"]>>]
            /\ UNCHANGED cache
       ELSE /\ cache' = flush(cache)
            /\ sent' = [slot |-> 0,
                        responses |-> <<[status |-> 200, message |-> "Cache cleared successfully"]>>]
  /\ UNCHANGED <<minute, env, requests, fetched>>
  /\ UNCHANGED calcVars
  /\ UNCHANGED authVars

NextHttp ==
  \/ \E s \in Slots : StartRequest(s)
  \/ \E s \in Slots : UpstreamSettles(s)
  \/ \E s \in Slots : Resume(s)
  \/ Elapse
  \/ CheckData
  \/ ClearCache

SpecHttp == InitHttp /\ [][NextHttp]_vars

(***************************************************************************)
(* The OAuth flow of a few browser sessions.  One token exchange is in     *)
(* flight at a time; /auth/login can be served while it is.                *)
(***************************************************************************)
\* GET /auth/login
Login(b) ==
  /\ \E state \in StateValues :
       /\ session' = [session EXCEPT ![b].oauthState = state]
       /\ authStep' = IF authStep.at = "exchanging" THEN authStep
                      ELSE [at |-> "login", browser |-> b, state |-> state,
                            location |-> "authorize"]
  /\ UNCHANGED calcVars
  /\ UNCHANGED statusVars

\* GET /auth/callback up to a redirect or to the await of the token exchange.
Callback(b) ==
  /\ authStep.at # "exchanging"
  /\ \E query \in Queries :
       LET location == callbackRedirect(query, session[b])
       IN  authStep' = IF location = "exchange"
                         THEN [at |-> "exchanging", browser |-> b, query |-> query]
                         ELSE [at |-> "callback", browser |-> b, query |-> query,
                               location |-> location]
  /\ UNCHANGED session
  /\ UNCHANGED calcVars
  /\ UNCHANGED statusVars

\* The token exchange settles and /auth/callback resumes: on success the
\* tokens are stored, the state is deleted and the user id is stored if the
\* user info could be fetched.
TokenExchangeSettles ==
  /\ authStep.at = "exchanging"
  /\ \E ok \in BOOLEAN, userInfo \in BOOLEAN :
       IF ok
         THEN /\ session' = [session EXCEPT ![authStep.browser] =
                               [ oauthState |-> NoParam, accessToken |-> TRUE,
                                 userId |-> (userInfo \/ @.userId) ]]
              /\ authStep' = [at |-> "done", browser |-> authStep.browser,
                              location |-> "auth_success"]
         ELSE /\ UNCHANGED session
              /\ authStep' = [at |-> "done", browser |-> authStep.browser,
                              location |-> "token_exchange"]
  /\ UNCHANGED calcVars
  /\ UNCHANGED statusVars

NextAuth ==
  \/ \E b \in Browsers : Login(b)
  \/ \E b \in Browsers : Callback(b)
  \/ TokenExchangeSettles

InitAuth ==
  /\ sleepData = [hasData |-> FALSE, data |-> <<>>]
  /\ today = 1
  /\ hour = 0
  /\ midnightIs24 = FALSE
  /\ result = None
  /\ locals = None
  /\ IdleServer

SpecAuth == InitAuth /\ [][NextAuth]_vars

(***************************************************************************)
(* Vocabulary of the properties, stated on the inputs of the call.         *)
(***************************************************************************)
Returned == result.kind = "return"

\* The four windows of the local hour.
InSleepWindow == hour >= 22 \/ hour < 7
InPreNapWindow == hour >= 7 /\ hour < 14
InNapWindow == hour >= 14 /\ hour < 17
InPostNapWindow == hour >= 17 /\ hour < 22

\* Duration in seconds of the record taken as last night's sleep.
MainSleepSeconds ==
  IF locals.sleepRecord = 0 THEN 0
  ELSE DataOf(sleepData)[locals.sleepRecord].total_sleep_duration

IsNoData == MainSleepSeconds = 0
IsSeverelyDeprived == MainSleepSeconds > 0 /\ MainSleepSeconds < 4 * 3600
IsStruggling == MainSleepSeconds >= 4 * 3600 /\ MainSleepSeconds < 6 * 3600
IsSufficient == MainSleepSeconds >= 6 * 3600 /\ MainSleepSeconds <= 9 * 3600
IsOversleep == MainSleepSeconds > 9 * 3600

\* Some session of the list is a qualifying nap of today.
QualifyingNapToday ==
  \E i \in 1..Len(DataOf(sleepData)) :
    LET r == DataOf(sleepData)[i]
    IN  /\ r.day = today
        /\ \/ r.type = "late_nap"
           \/ /\ r.bedtime_start \in 11..18
              /\ r.type # "long_sleep"

AsleepPair ==
  /\ result.message = "I Sleep"
  /\ result.recommendation = "Emily SHOULD be asleep right now."

NappedPair ==
  /\ result.message = "Not Nap Time"
  /\ result.recommendation = "Emily has napped already. Another nap would be silly."

C2_SleepCategory ==
  Returned =>
    /\ IsNoData <=> (result.sleepCategory = "no-data" /\ locals.sleepState = "no-data")
    /\ IsSeverelyDeprived <=>
         (result.sleepCategory = "severely-deprived" /\ locals.sleepState = "shambles")
    /\ IsStruggling <=>
         (result.sleepCategory = "struggling" /\ locals.sleepState = "struggling")
    /\ IsSufficient <=> (result.sleepCategory = "good" /\ locals.sleepState = "ok")
    /\ IsOversleep <=>
         (result.sleepCategory = "oversleep" /\ locals.sleepState = "oversleep")

C2_Witness ==
  /\ Returned
  /\ MainSleepSeconds = 9 * 3600
  /\ result.sleepCategory = "good"

C4_SleepTimeNoNap == (Returned /\ InSleepWindow) => ~result.needsNap

C6_NoSecondNap ==
  (Returned /\ QualifyingNapToday) => (~result.needsNap /\ ~result.shouldNap)

C6_Witness ==
  /\ Returned
  /\ QualifyingNapToday
  /\ Len(DataOf(sleepData)) = 2
  /\ DataOf(sleepData)[1].type = "long_sleep"
  /\ DataOf(sleepData)[2].type = "late_nap"
  /\ IsSeverelyDeprived
  /\ InNapWindow
  /\ ~result.needsNap

\* C7: without a nap of today, a severely-deprived or oversleep night gives
\* needsNap true with napPriority yes in the pre-nap, nap and post-nap windows.
C7_SevereAlwaysNaps ==
  (Returned /\ ~QualifyingNapToday /\ (IsSeverelyDeprived \/ IsOversleep)
     /\ ~InSleepWindow) =>
    (result.needsNap /\ result.napPriority = "yes")

C7_Witness ==
  /\ Returned
  /\ ~QualifyingNapToday
  /\ IsOversleep
  /\ InPostNapWindow
  /\ result.needsNap

\* C8: without a nap of today, a struggling night gives needsNap true with
\* napPriority maybe exactly in the nap window, and needsNap false with
\* napPriority none in every other window.
C8_StrugglingOnlyNapTime ==
  (Returned /\ ~QualifyingNapToday /\ IsStruggling) =>
    IF InNapWindow
    THEN result.needsNap /\ result.napPriority = "maybe"
    ELSE ~result.needsNap /\ result.napPriority = "none"

C8_Witness ==
  /\ Returned
  /\ ~QualifyingNapToday
  /\ IsStruggling
  /\ hour = 16
  /\ result.napPriority = "maybe"

\* C9: a sufficient night never gives needsNap and has napPriority none; a
\* no-data input never gives needsNap and has napPriority unknown; in every
\* window and for every napped status.
C9_SufficientAndNoData ==
  Returned =>
    /\ IsSufficient => (~result.needsNap /\ result.napPriority = "none")
    /\ IsNoData => (~result.needsNap /\ result.napPriority = "unknown")

C9_Witness ==
  /\ Returned
  /\ IsNoData
  /\ QualifyingNapToday
  /\ InNapWindow
  /\ result.napPriority = "unknown"

\* C10: the resolver is total: no call ends in a lookup of an undefined
\* table entry, and every returned advisory has a message, a recommendation,
\* a needsNap and a napPriority.
C10_Total ==
  /\ result.kind # "throw"
  /\ Returned =>
       /\ result.message \in {"I Sleep", "Not Nap Time", "NAP TIME", "Maybe Nap Time", "Unknown"}
       /\ result.recommendation # ""
       /\ result.needsNap \in BOOLEAN
       /\ result.napPriority \in {"none", "maybe", "yes", "unknown"}

C10_Witness ==
  /\ Returned
  /\ ~QualifyingNapToday
  /\ IsOversleep
  /\ InPostNapWindow
  /\ result.recommendation = "Emily might be getting sick - she slept over 9 hours. Who does that???"

(***************************************************************************)
(* Absent and malformed input.                                             *)
(***************************************************************************)
\* The advisory the claim calls the no-data advisory, at the current hour.
NoDataEntry ==
  IF InSleepWindow THEN MESSAGE_CONFIG.sleep.no_data
  ELSE IF InPreNapWindow THEN MESSAGE_CONFIG.pre_nap.no_data
  ELSE IF InNapWindow THEN MESSAGE_CONFIG.nap.no_data
  ELSE MESSAGE_CONFIG.post_nap.no_data

IsNoDataAdvisory ==
  /\ result.sleepCategory = "no-data"
  /\ ~result.needsNap
  /\ result.sleepHours = 0
  /\ result.sleepScore = NullScore
  /\ result.message = NoDataEntry.message
  /\ result.recommendation = NoDataEntry.recommendation

LacksField(r) ==
  \/ r.day = NoDay
  \/ r.type = NoType
  \/ r.total_sleep_duration = NoDuration

NoList == ~sleepData.hasData
EmptyList == sleepData.hasData /\ Len(sleepData.data) = 0
RecordsLackFields ==
  /\ Len(DataOf(sleepData)) > 0
  /\ \A i \in 1..Len(DataOf(sleepData)) : LacksField(DataOf(sleepData)[i])
SelectedLacksDuration ==
  /\ locals.sleepRecord # 0
  /\ DataOf(sleepData)[locals.sleepRecord].total_sleep_duration = NoDuration
SelectedZeroDuration ==
  /\ locals.sleepRecord # 0
  /\ DataOf(sleepData)[locals.sleepRecord].total_sleep_duration = 0

Sessions == DataOf(sleepData)
Selected == Sessions[locals.sleepRecord]

TodayMainSleeps ==
  { i \in 1..Len(Sessions) : Sessions[i].day = today /\ Sessions[i].type = "long_sleep" }
MainSleeps == { i \in 1..Len(Sessions) : Sessions[i].type = "long_sleep" }
NonNaps == { i \in 1..Len(Sessions) : Sessions[i].type # "late_nap" }

\* C12: the selected session is a main sleep of today if there is one, else a
\* main sleep if there is one, else the first session that is not a daytime
\* nap, else the first session, else none.
C12_SelectionPrecedence ==
  Returned =>
    IF TodayMainSleeps # {} THEN locals.sleepRecord \in TodayMainSleeps
    ELSE IF MainSleeps # {} THEN locals.sleepRecord \in MainSleeps
    ELSE IF NonNaps # {}
      THEN /\ locals.sleepRecord \in NonNaps
           /\ \A j \in NonNaps : locals.sleepRecord <= j
    ELSE IF Len(Sessions) > 0 THEN locals.sleepRecord = 1
    ELSE locals.sleepRecord = 0

C12_Witness ==
  /\ Returned
  /\ Len(Sessions) = 2
  /\ Sessions[1].type = "long_sleep"
  /\ Sessions[1].day # today
  /\ Sessions[2].type = "long_sleep"
  /\ Sessions[2].day = today
  /\ locals.sleepRecord = 2

\* C13: when no main sleep is dated today, the main sleep selected is the one
\* with the latest day, whatever the order of the list.
C13_MostRecentFallback ==
  (Returned /\ TodayMainSleeps = {} /\ MainSleeps # {}) =>
    \A j \in MainSleeps : Sessions[j].day <= Selected.day

\* C14: with a main sleep of non-zero duration selected, hasNappedToday holds
\* exactly when some session of today is a late_nap, or starts at an hour in
\* 11..18 and is not a long_sleep.
C14_NapDetection ==
  (Returned /\ locals.sleepRecord # 0 /\ ~IsNoData /\ Selected.type = "long_sleep") =>
    (result.hasNappedToday <=> QualifyingNapToday)

C14_Witness ==
  /\ Returned
  /\ Len(Sessions) = 2
  /\ Selected.type = "long_sleep"
  /\ \E i \in 1..2 :
       /\ Sessions[i].type = "sleep"
       /\ Sessions[i].day = today
       /\ Sessions[i].bedtime_start = 18
  /\ result.hasNappedToday

NightStart(r) ==
  /\ r.bedtime_start # NoStart
  /\ (r.bedtime_start < 11 \/ r.bedtime_start >= 19)

\* C15 as stated: the session taken as today's nap never starts at night,
\* whatever its type.
C15_NightNeverNapAll ==
  (Returned /\ locals.todayNap # 0) => ~NightStart(Sessions[locals.todayNap])

\* C15 amended: a session that starts at night is taken as today's nap only if
\* its type is late_nap; a list whose sessions all start at night and are not
\* late_nap neither sets hasNappedToday nor suppresses needsNap.
C15_NightNeverNap ==
  /\ (Returned /\ locals.todayNap # 0 /\ NightStart(Sessions[locals.todayNap]))
       => Sessions[locals.todayNap].type = "late_nap"
  /\ (Returned /\ ~IsNoData
        /\ \A i \in 1..Len(Sessions) :
             NightStart(Sessions[i]) /\ Sessions[i].type # "late_nap")
       => /\ ~result.hasNappedToday
          /\ (IsStruggling /\ InNapWindow) => result.needsNap

C15_Witness ==
  /\ Returned
  /\ Len(Sessions) = 2
  /\ Sessions[1].type = "long_sleep"
  /\ Sessions[1].bedtime_start = 19
  /\ Sessions[2].type = "sleep"
  /\ Sessions[2].day = today
  /\ Sessions[2].bedtime_start = 10
  /\ hour = 15
  /\ ~result.hasNappedToday
  /\ result.needsNap

\* C16: the session whose duration is reported as last night's sleep is never
\* a daytime nap (late_nap).
C16_NapNeverCounted ==
  (Returned /\ locals.sleepRecord # 0) => Selected.type # "late_nap"

(***************************************************************************)
(* The result cache and the nap-status route.                              *)
(***************************************************************************)
\* A step in which slot s runs the handler from its start.
StartsRequest(s) == requests[s] = Idle /\ sent'.slot = s

\* A step in which slot s resumes after the provider's answer.
Resumes(s) == requests[s].at = "settled" /\ requests'[s] = Idle

TokenSet == env.OURA_API_TOKEN

\* The instant at which the stored advisory was computed and stored.
StoredAt == cache.v.lastUpdated

Expired == cache.present /\ Now >= StoredAt + 300

\* C17: an advisory stored with a TTL of 300 s is returned by get until 300 s
\* have elapsed and is absent from then on; a request that finds an expired
\* entry takes the miss path and leaves the cache as if nothing had been
\* stored; flush leaves nothing to get.
C17_CacheRoundTrip ==
  /\ [](cache.present =>
          cacheGet(cache, Now) =
            IF Now < StoredAt + 300 THEN cache.v ELSE Undefined)
  /\ [][\A s \in Slots :
          (StartsRequest(s) /\ TokenSet /\ (Expired \/ ~cache.present)) =>
             /\ requests'[s] = Fetching
             /\ sent'.responses = <<>>
             /\ cache' = EmptyCache]_vars
  /\ [][\A s \in Slots :
          (Resumes(s) /\ requests[s].outcome.kind = "data") =>
             /\ cacheGet(cache', Now') = sent'.responses[1].body
             /\ cache'.v.lastUpdated = Now']_vars
  /\ [][(sent'.slot = 0 /\ env.NODE_ENV = "development") =>
          cacheGet(cache', Now') = Undefined]_vars

C17_Witness ==
  /\ Expired
  /\ cacheGet(cache, Now) = Undefined
  /\ cache.v.sleepCategory = "struggling"

\* C18: a request that finds a live entry answers 200 with the stored
\* advisory, cached = true and cacheTime = its lastUpdated, starts no fetch and
\* computes nothing; a request that finds none fetches, and on the provider's
\* data computes the advisory of the instant, stores it for 300 s and answers
\* it without the cached flag.
C18_HitAndMiss ==
  /\ [][\A s \in Slots :
          (StartsRequest(s) /\ TokenSet /\ cache.present /\ Now < StoredAt + 300) =>
             /\ sent'.responses =
                  <<[ status |-> 200, body |-> cache.v, cached |-> TRUE,
                      cacheTime |-> cache.v.lastUpdated ]>>
             /\ requests' = requests
             /\ cache' = cache]_vars
  /\ [][\A s \in Slots :
          (StartsRequest(s) /\ TokenSet /\ ~(cache.present /\ Now < StoredAt + 300)) =>
             /\ requests'[s] = Fetching
             /\ sent'.responses = <<>>]_vars
  /\ [][\A s \in Slots :
          (Resumes(s) /\ requests[s].outcome.kind = "data") =>
             LET fresh == calculateNapStatus(sleepData, today, hour, midnightIs24)
                            @@ [lastUpdated |-> Now]
             IN  /\ sent'.responses = <<[status |-> 200, body |-> fresh]>>
                 /\ cache' = [present |-> TRUE, v |-> fresh, t |-> Now + 300]]_vars

C18_Witness ==
  /\ sent.slot \in Slots
  /\ Len(sent.responses) = 1
  /\ "cached" \in DOMAIN sent.responses[1]
  /\ sent.responses[1].cached
  /\ sent.responses[1].cacheTime = StoredAt
  /\ sent.responses[1].cacheTime < Now
  /\ \A s \in Slots : requests[s] = Idle

HourOf(t) == (t \div 3600) % 24
DayOf(t) == t \div 86400

Advisories ==
  { sent.responses[i] : i \in { j \in 1..Len(sent.responses) :
                                  "body" \in DOMAIN sent.responses[j] } }

SameWindowFields(body, advisory) ==
  /\ body.isNapTime = advisory.isNapTime
  /\ body.isSleepTime = advisory.isSleepTime
  /\ body.message = advisory.message
  /\ body.recommendation = advisory.recommendation
  /\ body.needsNap = advisory.needsNap

\* C19 as stated: the window-dependent fields of every advisory served are
\* those of the instant at which it is served.
C19_WindowOfServeInstantAll ==
  \A r \in Advisories :
    /\ r.body.isNapTime = InNapWindow
    /\ r.body.isSleepTime = InSleepWindow
    /\ SameWindowFields(r.body, calculateNapStatus(sleepData, today, hour, midnightIs24))

\* C19 amended: the window-dependent fields of an advisory served are those of
\* the instant at which it was computed; that instant is the serve instant on
\* a miss and lies less than 300 s before it on a hit.
C19_WindowOfComputeInstant ==
  \A r \in Advisories :
    LET computed == r.body.lastUpdated
        h == HourOf(computed)
    IN  /\ IF "cached" \in DOMAIN r
             THEN computed <= Now /\ Now - computed < 300
             ELSE computed = Now
        /\ r.body.isNapTime = (h >= 14 /\ h < 17)
        /\ r.body.isSleepTime = (h >= 22 \/ h < 7)
        /\ SameWindowFields(r.body,
             calculateNapStatus(sleepData, DayOf(computed), h, midnightIs24))

C19_Witness ==
  \E r \in Advisories :
    /\ "cached" \in DOMAIN r
    /\ HourOf(r.body.lastUpdated) = 16
    /\ hour = 17
    /\ r.body.isNapTime
    /\ r.body.needsNap

ExpectedFailure(outcome) ==
  IF outcome.kind = "response" /\ outcome.status = 401 THEN AuthenticationFailed
  ELSE IF outcome.kind = "response" /\ outcome.status = 429 THEN RateLimitExceeded
  ELSE IF outcome.kind = "no_response" THEN ServiceUnavailable
  ELSE FailedToFetch

\* C20: the handler answers the provider's data, no-data included, with one
\* 200; a 401 of the provider with one 401 'Authentication failed'; a 429 with
\* one 429 'Rate limit exceeded' and retryAfter 60; no response of the provider
\* with one 503 'Service unavailable'; any other failure with one 500 'Failed
\* to fetch nap status'.
C20_StatusContract ==
  [][\A s \in Slots :
       Resumes(s) =>
         IF requests[s].outcome.kind = "data"
           THEN /\ Len(sent'.responses) = 1
                /\ sent'.responses[1].status = 200
           ELSE sent'.responses = <<ExpectedFailure(requests[s].outcome)>>]_vars

\* A step in which slot s sends the sleep request to the provider.
IssuesFetch(s) == requests[s] = Idle /\ requests'[s] = Fetching

\* C21: whatever the interleaving of the requests, a sleep request is sent to
\* the provider only if none was sent during the 300 s before.
C21_OneFetchPerWindow ==
  [][\A s \in Slots :
       IssuesFetch(s) => (fetched = NoFetch \/ Now - fetched >= 300)]_vars

C23_SleepTimeFromEleven ==
  Returned =>
    /\ hour \in {22, 7} => ~result.isSleepTime
    /\ hour \in {23, 0, 6} => result.isSleepTime

\* C24: needsNap comes with the message 'NAP TIME' when the priority is yes
\* and 'Maybe Nap Time' when it is maybe, at every hour of the day, and
\* either message comes with needsNap.
C24_MessageAgreesWithDecision ==
  Returned =>
    /\ result.needsNap =>
         \/ result.napPriority = "yes" /\ result.message = "NAP TIME"
         \/ result.napPriority = "maybe" /\ result.message = "Maybe Nap Time"
    /\ result.message \in {"NAP TIME", "Maybe Nap Time"} => result.needsNap

\* C25: the displayed hours, in tenths, stay on the side of the threshold on
\* which the category lies: below 6.0 for struggling and for 'Maybe Nap
\* Time', below 4.0 for severely-deprived, above 9.0 for oversleep.
C25_DisplayedHoursAgree ==
  Returned =>
    /\ result.sleepCategory = "struggling" => result.sleepHours < 60
    /\ result.message = "Maybe Nap Time" => result.sleepHours < 60
    /\ result.sleepCategory = "severely-deprived" => result.sleepHours < 40
    /\ result.sleepCategory = "oversleep" => result.sleepHours > 90

NapAdvice ==
  { "Take a 20-30 minute nap now",
    "Take a nap immediately - severe sleep deprivation",
    "Take a nap - you might be getting sick" }

\* C26: no status is severely-deprived with needsNap false, and the detailed
\* recommendations of a status with hasNappedToday never tell to take a nap.
C26_NoNapAdviceAfterNap ==
  Returned =>
    /\ ~(result.sleepCategory = "severely-deprived" /\ ~result.needsNap)
    /\ result.hasNappedToday =>
         \A i \in 1..Len(getDetailedRecommendations(result, hour)) :
           getDetailedRecommendations(result, hour)[i] \notin NapAdvice

\* C29: in every advisory shouldNap equals needsNap, needsNap holds exactly
\* when the priority is yes or maybe, the priority is unknown exactly when the
\* category is no-data, and isNapTime and isSleepTime are not both true.
C29_DecisionFieldsConsistent ==
  Returned =>
    /\ result.shouldNap = result.needsNap
    /\ result.needsNap <=> result.napPriority \in {"yes", "maybe"}
    /\ result.napPriority = "unknown" <=> result.sleepCategory = "no-data"
    /\ ~(result.isNapTime /\ result.isSleepTime)

C29_Witness ==
  /\ Returned
  /\ result.needsNap
  /\ result.shouldNap
  /\ result.napPriority = "maybe"
  /\ result.isNapTime
  /\ ~result.isSleepTime
  /\ result.sleepCategory = "struggling"

(***************************************************************************)
(* The OAuth state parameter.                                              *)
(***************************************************************************)
\* A step in which /auth/callback is served up to its redirect or its await.
CallbackStep ==
  /\ authStep.at # "exchanging"
  /\ authStep'.at \in {"callback", "exchanging"}

\* C27: a callback starts the token exchange only with a state parameter
\* equal to the state a login stored in its session; a callback that was not
\* denied and whose state differs from the stored one, or whose session holds
\* no state, is redirected with invalid_state; tokens are stored only by the
\* session whose exchange succeeded.
C27_OauthStateProtection ==
  /\ [][CallbackStep =>
          LET stored == session[authStep'.browser].oauthState
              query == authStep'.query
          IN  /\ authStep'.at = "exchanging" =>
                   (stored # NoParam /\ query.state = stored)
              /\ (query.error = NoParam /\ (stored = NoParam \/ query.state # stored)) =>
                   (authStep'.at = "callback" /\ authStep'.location = "invalid_state")]_vars
  /\ [][\A b \in Browsers :
          (~session[b].accessToken /\ session'[b].accessToken) =>
             (authStep.at = "exchanging" /\ authStep.browser = b)]_vars

(***************************************************************************)
(* Failures and staleness of the nap-status route.                         *)
(***************************************************************************)
\* C28: a request that fails, for a missing token or for any failure of the
\* provider, leaves the cache as it found it; the cache never holds anything
\* but an advisory, nothing but an advisory is served from it, and a request
\* that finds no live entry fetches.
C28_FailuresNotCached ==
  /\ [][\A s \in Slots :
          (StartsRequest(s) /\ ~TokenSet) =>
             (cache' = cache /\ requests' = requests)]_vars
  /\ [][\A s \in Slots :
          StartsRequest(s) => cacheGet(cache', Now') = cacheGet(cache, Now)]_vars
  /\ [][\A s \in Slots :
          (Resumes(s) /\ requests[s].outcome.kind # "data") =>
             (cache' = cache /\ sent'.responses[1].status >= 400)]_vars
  /\ [](cache.present => cache.v.kind = "return")
  /\ [](\A i \in 1..Len(sent.responses) :
          "cached" \in DOMAIN sent.responses[i] =>
             (sent.responses[i].status = 200 /\ sent.responses[i].body.kind = "return"))
  /\ [][\A s \in Slots :
          (StartsRequest(s) /\ TokenSet /\ cacheGet(cache, Now) = Undefined) =>
             (requests'[s] = Fetching /\ fetched' = Now')]_vars

C28_Witness ==
  /\ sent.slot \in Slots
  /\ sent.responses = <<ServiceUnavailable>>
  /\ ~cache.present
  /\ fetched = Now
  /\ \A s \in Slots : requests[s] = Idle

\* C30: every advisory served was computed at most 300 s before; a hit leaves
\* the stored entry and its expiry as they were; the entry expires 300 s after
\* it was stored, and the first request at or after that instant fetches.
C30_StalenessBounded ==
  /\ [](\A r \in Advisories :
          r.body.lastUpdated <= Now /\ Now - r.body.lastUpdated <= 300)
  /\ [](cache.present => cache.t = StoredAt + 300)
  /\ [][\A s \in Slots :
          (StartsRequest(s) /\ TokenSet /\ cacheGet(cache, Now) # Undefined) =>
             (cache' = cache /\ sent'.responses[1].body = cache.v)]_vars
  /\ [][\A s \in Slots :
          (StartsRequest(s) /\ TokenSet /\ cache.present /\ Now >= StoredAt + 300) =>
             (requests'[s] = Fetching /\ fetched' = Now' /\ sent'.responses = <<>>)]_vars

C30_Witness ==
  /\ \E r \in Advisories :
       /\ "cached" \in DOMAIN r
       /\ Now - r.body.lastUpdated = 240
       /\ cache.present
       /\ cache.v = r.body
  /\ cache.t = Now + 60

====
